---------------------------- MODULE Spec2Model ----------------------------
(***************************************************************************)
(* Model of the GBM data-cleaning scripts gene.py (full pipeline) and      *)
(* gene_chunk.py (six-sample variant).                                     *)
(*                                                                         *)
(* Strings (column names, cell tokens) are sequences of one-character      *)
(* strings, so that the regular-expression substitutions of                *)
(* clean_col_names and the parse of pd.to_numeric are computed, not        *)
(* assumed.  A table is a record [columns, rows]: columns is the header    *)
(* (a sequence of names), rows a sequence of rows, each a sequence of      *)
(* cells aligned with the header.  Tables are the in-memory containers     *)
(* pd.read_csv returns; the CSV text itself is not modelled.               *)
(***************************************************************************)
EXTENDS Integers, Sequences, FiniteSets, TLC

VARIABLES
    script,               \* which script runs: "gene" or "gene_chunk"
    pc,                   \* position in the script
    disk,                 \* the input files: their tables and which are present
    clinical_df,          \* gene.py
    survival_df,          \* gene.py
    expression_df,        \* gene.py
    master_sample_ids,    \* gene.py
    survival_df_clean,    \* gene.py
    expression_df_clean,  \* gene.py, gene_chunk.py
    raw_expression_df,    \* gene_chunk.py
    sample_ids_to_keep,   \* gene_chunk.py
    expression_subset_df, \* gene_chunk.py
    expression_long_df,   \* gene.py, gene_chunk.py
    out,                  \* the output files written so far
    reported,             \* the FileNotFoundError message was printed
    col,                  \* normalizer study: the column name given
    new_cols              \* normalizer study: the names produced so far

vars == <<script, pc, disk, clinical_df, survival_df, expression_df,
          master_sample_ids, survival_df_clean, expression_df_clean,
          raw_expression_df, sample_ids_to_keep, expression_subset_df,
          expression_long_df, out, reported, col, new_cols>>

-----------------------------------------------------------------------------
(* Bounds *)

\* longest column name given to the normalizer study
MaxNameLen == 3
\* most rows of the clinical and of the survival file of gene.py
MaxRows == 3
\* most rows of the expression file of gene.py
MaxExprRows == 2
\* most rows of the raw expression file of gene_chunk.py
MaxChunkRows == 7

\* gene_chunk.py line 31: unique()[:6]
KeepN == 6

-----------------------------------------------------------------------------
(* Characters and strings *)

LowerLetters == <<"a","b","c","d","e","f","g","h","i","j","k","l","m","n","o","p","q","r","s","t","u","v","w","x","y","z">>
UpperLetters == <<"A","B","C","D","E","F","G","H","I","J","K","L","M","N","O","P","Q","R","S","T","U","V","W","X","Y","Z">>
Digits == <<"0","1","2","3","4","5","6","7","8","9">>

Range(s) == { s[i] : i \in DOMAIN s }

UpperSet == Range(UpperLetters)
DigitSet == Range(Digits)

\* str.lower() on one character
LowerOfUpper ==
    [c \in UpperSet |-> LowerLetters[CHOOSE i \in DOMAIN UpperLetters : UpperLetters[i] = c]]

LowerChar(c) == IF c \in UpperSet THEN LowerOfUpper[c] ELSE c

\* str.lower()
Lower(s) == [i \in DOMAIN s |-> LowerChar(s[i])]

\* the character class [a-zA-Z0-9_]
WordChars == Range(LowerLetters) \cup UpperSet \cup DigitSet \cup {"_"}

IsWordChar(c) == c \in WordChars

\* re.sub(r"[^a-zA-Z0-9_]", "_", s)
SubNonWord(s) == [i \in DOMAIN s |-> IF IsWordChar(s[i]) THEN s[i] ELSE "_"]

\* re.sub(r"_+", "_", s): every maximal run of underscores becomes one
RECURSIVE CollapseUnderscores(_)
CollapseUnderscores(s) ==
    IF Len(s) <= 1 THEN s
    ELSE IF s[1] = "_" /\ s[2] = "_" THEN CollapseUnderscores(Tail(s))
    ELSE <<s[1]>> \o CollapseUnderscores(Tail(s))

\* gene.py, the body of the loop of clean_col_names
CleanName(c) == CollapseUnderscores(SubNonWord(Lower(c)))

\* gene_chunk.py lines 11-12: one leading underscore is removed
StripLeadingUnderscore(s) ==
    IF Len(s) > 0 /\ s[1] = "_" THEN Tail(s) ELSE s

\* gene_chunk.py, the body of the loop of clean_col_names
CleanNameChunk(c) ==
    CollapseUnderscores(SubNonWord(StripLeadingUnderscore(Lower(c))))

\* gene.py clean_col_names(df): the header is rewritten, the data kept
clean_col_names(df) ==
    [df EXCEPT !.columns = [i \in DOMAIN df.columns |-> CleanName(df.columns[i])]]

\* gene_chunk.py clean_col_names(df)
clean_col_names_chunk(df) ==
    [df EXCEPT !.columns = [i \in DOMAIN df.columns |-> CleanNameChunk(df.columns[i])]]

-----------------------------------------------------------------------------
(* Column names the scripts name *)

sample_id == <<"s","a","m","p","l","e","_","i","d">>
gene_symbol == <<"g","e","n","e","_","s","y","m","b","o","l">>
expression_value == <<"e","x","p","r","e","s","s","i","o","n","_","v","a","l","u","e">>
age_at_initial_pathologic_diagnosis == <<"a","g","e","_","a","t","_","i","n","i","t","i","a","l","_","p","a","t","h","o","l","o","g","i","c","_","d","i","a","g","n","o","s","i","s">>
initial_pathologic_dx_year == <<"i","n","i","t","i","a","l","_","p","a","t","h","o","l","o","g","i","c","_","d","x","_","y","e","a","r">>
birth_days_to == <<"b","i","r","t","h","_","d","a","y","s","_","t","o">>
death_days_to == <<"d","e","a","t","h","_","d","a","y","s","_","t","o">>

\* gene.py lines 52-57
numeric_clinical_cols ==
    <<age_at_initial_pathologic_diagnosis, initial_pathologic_dx_year,
      birth_days_to, death_days_to>>

-----------------------------------------------------------------------------
(* Cells *)

\* a cell of a table: a number, the missing marker, an infinity, or a string
Num(n) == [t |-> "num", v |-> n, s |-> <<>>]
NaN == [t |-> "nan", v |-> 0, s |-> <<>>]
Inf == [t |-> "inf", v |-> 0, s |-> <<>>]
Str(s) == [t |-> "str", v |-> 0, s |-> s]

IsDigits(s) == Len(s) > 0 /\ \A i \in DOMAIN s : s[i] \in DigitSet

ValueOfDigit == [c \in DigitSet |-> (CHOOSE i \in DOMAIN Digits : Digits[i] = c) - 1]

DigitValue(c) == ValueOfDigit[c]

RECURSIVE Decimal(_)
Decimal(s) ==
    IF Len(s) = 0 THEN 0
    ELSE 10 * Decimal(SubSeq(s, 1, Len(s) - 1)) + DigitValue(s[Len(s)])

\* a coercion that writes zero for what does not parse
ToNumericStrZero(c) ==
    IF IsDigits(c.s) THEN Num(Decimal(c.s))
    ELSE IF Lower(c.s) = <<"i","n","f">> THEN Inf
    ELSE Num(0)

\* pd.to_numeric(..., errors="coerce") on one value: a numeric value is kept,
\* a string is parsed, and what does not parse becomes the missing marker
ToNumericStr(c) ==
    IF IsDigits(c.s) THEN Num(Decimal(c.s))
    ELSE IF Lower(c.s) = <<"i","n","f">> THEN Inf
    ELSE NaN

ToNumeric(c) == IF c.t = "str" THEN ToNumericStr(c) ELSE c

-----------------------------------------------------------------------------
(* Tables *)

NoTable == [columns |-> <<>>, rows |-> <<>>]

\* the positions of the columns called name
Positions(df, name) == { j \in DOMAIN df.columns : df.columns[j] = name }

\* df[name], for a name the header holds once: the position of that column
ColumnOf(df, name) == CHOOSE j \in Positions(df, name) : TRUE

\* set(df["sample_id"])
SampleIdSet(df) ==
    { df.rows[r][ColumnOf(df, sample_id)] : r \in DOMAIN df.rows }

\* a filter that keeps the rows whose sample_id is not in values
IsNotIn(v, values) == v \notin values

\* Series.isin(values) on one value
IsIn(v, values) == v \in values

\* a filter that is never applied: every row is kept
FilterKeepsAll(df, values) == df

\* df[df["sample_id"].isin(values)].copy(): the rows whose sample_id is in
\* values, in their order; a new table
FilterBySampleId(df, values) ==
    LET j == ColumnOf(df, sample_id)
        Keep(row) == IsIn(row[j], values)
    IN  [df EXCEPT !.rows = SelectSeq(df.rows, Keep)]

\* df[c] = pd.to_numeric(df[c], errors="coerce") for every column c of df
\* whose name is in names
CoerceColumns(df, names) ==
    [df EXCEPT !.rows =
        [r \in DOMAIN df.rows |->
            [j \in DOMAIN df.columns |->
                IF df.columns[j] \in names
                THEN ToNumeric(df.rows[r][j])
                ELSE df.rows[r][j]]]]

\* the clinical table coerced like the survival table: every column other
\* than sample_id
AllButSampleId(df) == Range(df.columns) \ {sample_id}

\* gene.py lines 58-60: the designated columns the table holds
ClinicalTargets(df) ==
    { numeric_clinical_cols[i] : i \in DOMAIN numeric_clinical_cols }
        \cap Range(df.columns)

\* gene.py lines 63-65: every column other than sample_id
SurvivalTargets(df) == Range(df.columns) \ {sample_id}

\* the value columns taken to be all columns after the first
ValuePositionsAfterFirst(df, j) == [i \in 1..(Len(df.columns) - 1) |-> i + 1]

\* the positions of the value columns of pd.melt(df, id_vars=["sample_id"]),
\* in header order
RECURSIVE ValuePositions(_, _)
ValuePositions(df, j) ==
    IF j > Len(df.columns) THEN <<>>
    ELSE IF df.columns[j] = sample_id THEN ValuePositions(df, j + 1)
    ELSE <<j>> \o ValuePositions(df, j + 1)

\* a reshape that drops the rows whose value is missing
MeltDropMissing(df) ==
    LET id == ColumnOf(df, sample_id)
        V  == ValuePositions(df, 1)
        N  == Len(df.rows)
        Present(row) == row[3] # NaN
    IN  [columns |-> <<sample_id, gene_symbol, expression_value>>,
         rows |-> SelectSeq([k \in 1..(N * Len(V)) |->
                    LET j == V[((k - 1) \div N) + 1]
                        r == ((k - 1) % N) + 1
                    IN  <<df.rows[r][id], Str(df.columns[j]), df.rows[r][j]>>],
                    Present)]

\* pd.melt(df, id_vars=["sample_id"], var_name="gene_symbol",
\* value_name="expression_value"): value column after value column, and
\* within one column row after row
Melt(df) ==
    LET id == ColumnOf(df, sample_id)
        V  == ValuePositions(df, 1)
        N  == Len(df.rows)
    IN  [columns |-> <<sample_id, gene_symbol, expression_value>>,
         rows |-> [k \in 1..(N * Len(V)) |->
                    LET j == V[((k - 1) \div N) + 1]
                        r == ((k - 1) % N) + 1
                    IN  <<df.rows[r][id], Str(df.columns[j]), df.rows[r][j]>>]]

\* the values with their repetitions: the first rows, not the first
\* distinct identifiers
NoDedup(s) == s

\* Series.unique(): the distinct values in order of first occurrence
RECURSIVE Unique(_)
Unique(s) ==
    IF Len(s) = 0 THEN <<>>
    ELSE LET u == Unique(SubSeq(s, 1, Len(s) - 1))
         IN  IF s[Len(s)] \in Range(u) THEN u ELSE Append(u, s[Len(s)])

\* s[:n]
Head_n(s, n) == SubSeq(s, 1, IF Len(s) < n THEN Len(s) ELSE n)

\* df["sample_id"] as a sequence
SampleIdColumn(df) ==
    [r \in DOMAIN df.rows |-> df.rows[r][ColumnOf(df, sample_id)]]

-----------------------------------------------------------------------------
(* The input files the model reads *)

\* the sample identifier S<k>
Sid(k) == Str(<<"S", Digits[k + 1]>>)

\* the sample identifiers of the gene.py inputs
IdIndices == 1..4

\* the values a data cell takes, as pd.read_csv leaves them
CellVals ==
    <<Num(12),
      Str(<<"n","o","t"," ","r","e","p","o","r","t","e","d">>),
      NaN,
      Str(<<"7">>),
      Str(<<"i","n","f">>)>>

Fills == 0..(Len(CellVals) - 1)

IdCol(name) == [name |-> name, kind |-> "id"]
ValCol(name) == [name |-> name, kind |-> "val"]

\* the table with the columns of layout, one row per element of ids (indices
\* of sample identifiers); the data cells run through CellVals from fill on
MkTable(layout, ids, fill) ==
    [columns |-> [j \in DOMAIN layout |-> layout[j].name],
     rows |-> [r \in DOMAIN ids |->
                [j \in DOMAIN layout |->
                    IF layout[j].kind = "id" THEN Sid(ids[r])
                    ELSE CellVals[((r + j + fill) % Len(CellVals)) + 1]]]]

ClinicalLayouts ==
    { <<IdCol(sample_id),
        ValCol(<<"D","e","a","t","h"," ","D","a","y","s"," ","T","o">>),
        ValCol(<<"G","e","n","d","e","r">>)>>,
      <<IdCol(<<"S","a","m","p","l","e"," ","I","D">>),
        ValCol(<<"G","e","n","d","e","r">>)>>,
      <<ValCol(<<"B","I","R","T","H","_","_","D","A","Y","S","-","T","O">>),
        IdCol(sample_id),
        ValCol(death_days_to)>> }

SurvivalLayouts ==
    { <<IdCol(sample_id), ValCol(<<"O","S">>), ValCol(<<"O","S",".","t","i","m","e">>)>>,
      <<ValCol(<<"O","S">>), IdCol(<<"S","a","m","p","l","e","_","I","D">>)>> }

ExpressionLayouts ==
    { <<IdCol(sample_id), ValCol(<<"T","P","5","3">>), ValCol(<<"E","G","F","R">>)>>,
      <<IdCol(<<"S","a","m","p","l","e"," ","I","D">>)>>,
      <<ValCol(<<"T","P","5","3">>), IdCol(sample_id), ValCol(<<"t","p","5","3">>)>> }

ChunkLayouts ==
    { <<IdCol(sample_id), ValCol(<<"_","T","P","5","3">>), ValCol(<<"E","G","F","R">>)>>,
      <<ValCol(<<"T","P","5","3">>), IdCol(sample_id)>> }

BaseClinicalLayout == <<IdCol(sample_id), ValCol(death_days_to)>>
BaseSurvivalLayout == <<IdCol(sample_id), ValCol(<<"O","S">>)>>
BaseExpressionLayout == <<IdCol(sample_id), ValCol(<<"T","P","5","3">>)>>

\* all sequences of at most n elements of S
SeqsUpTo(S, n) == UNION { [1..k -> S] : k \in 0..n }

MaxOf(s) == IF Len(s) = 0 THEN 0 ELSE CHOOSE m \in Range(s) : \A x \in Range(s) : x <= m

\* the sequences of exactly n indices in which a new index is always the
\* next unused one: the identifiers named in order of first occurrence
RECURSIVE FirstOccurrenceSeqs(_)
FirstOccurrenceSeqs(n) ==
    IF n = 0 THEN { <<>> }
    ELSE UNION { { Append(s, v) : v \in 1..(MaxOf(s) + 1) } :
                    s \in FirstOccurrenceSeqs(n - 1) }

FirstOccurrenceSeqsUpTo(n) == UNION { FirstOccurrenceSeqs(k) : k \in 0..n }

Files == {"clinical", "survival", "expression"}

Dataset(c, s, e, present) ==
    [clinical |-> c, survival |-> s, expression |-> e, present |-> present]

BaseClinical == MkTable(BaseClinicalLayout, <<1, 2, 3>>, 0)
BaseSurvival == MkTable(BaseSurvivalLayout, <<1, 2, 4>>, 0)
BaseExpression == MkTable(BaseExpressionLayout, <<1, 4>>, 0)

\* the clinical and the survival identifiers vary
SurvivalDatasets ==
    { Dataset(MkTable(BaseClinicalLayout, c, 0), MkTable(BaseSurvivalLayout, s, 0),
              BaseExpression, Files) :
        c \in FirstOccurrenceSeqsUpTo(MaxRows), s \in SeqsUpTo(IdIndices, MaxRows) }

\* the clinical and the expression identifiers vary
ExpressionDatasets ==
    { Dataset(MkTable(BaseClinicalLayout, c, 0), BaseSurvival,
              MkTable(BaseExpressionLayout, e, 0), Files) :
        c \in FirstOccurrenceSeqsUpTo(MaxRows), e \in SeqsUpTo(IdIndices, MaxExprRows) }

\* the headers and the cell values vary
CellDatasets ==
    { Dataset(MkTable(lc, <<1, 2, 3>>, f), MkTable(ls, <<1, 2, 4>>, f),
              MkTable(le, <<1, 4, 2>>, f), Files) :
        lc \in ClinicalLayouts, ls \in SurvivalLayouts, le \in ExpressionLayouts,
        f \in Fills }

\* some input file is missing
MissingDatasets ==
    { Dataset(IF "clinical" \in p THEN BaseClinical ELSE NoTable,
              IF "survival" \in p THEN BaseSurvival ELSE NoTable,
              IF "expression" \in p THEN BaseExpression ELSE NoTable, p) :
        p \in (SUBSET Files) \ {Files} }

GeneDatasets ==
    SurvivalDatasets \cup ExpressionDatasets \cup CellDatasets \cup MissingDatasets

\* the inputs of gene_chunk.py: it reads the expression file only
ChunkDatasets ==
    { Dataset(NoTable, NoTable, MkTable(l, e, 0), {"expression"}) :
        l \in ChunkLayouts, e \in FirstOccurrenceSeqsUpTo(MaxChunkRows) }
    \cup { Dataset(NoTable, NoTable, NoTable, {}) }

-----------------------------------------------------------------------------
(* The state before a script starts *)

NoOutput ==
    [written |-> <<>>,
     cleaned_clinical_data |-> NoTable,
     cleaned_survival_data |-> NoTable,
     cleaned_expression_data |-> NoTable,
     final_cleaned_expression_2 |-> NoTable]

Blank ==
    /\ clinical_df = NoTable
    /\ survival_df = NoTable
    /\ expression_df = NoTable
    /\ master_sample_ids = {}
    /\ survival_df_clean = NoTable
    /\ expression_df_clean = NoTable
    /\ raw_expression_df = NoTable
    /\ sample_ids_to_keep = <<>>
    /\ expression_subset_df = NoTable
    /\ expression_long_df = NoTable
    /\ out = NoOutput
    /\ reported = FALSE

Init ==
    /\ script \in {"gene", "gene_chunk"}
    /\ pc = IF script = "gene" THEN "load_clinical" ELSE "chunk_load"
    /\ disk \in IF script = "gene" THEN GeneDatasets ELSE ChunkDatasets
    /\ Blank
    /\ col = <<>>
    /\ new_cols = <<>>

-----------------------------------------------------------------------------
(* gene.py *)

\* to_csv(name, index=False)
ToCsv(o, name, df) ==
    [o EXCEPT ![name] = df, !.written = Append(o.written, name)]

\* lines 19-26, the first read_csv and the handler of FileNotFoundError
LoadClinical ==
    /\ script = "gene" /\ pc = "load_clinical"
    /\ IF "clinical" \in disk.present
       THEN /\ clinical_df' = disk.clinical
            /\ pc' = "load_survival"
            /\ UNCHANGED reported
       ELSE /\ reported' = TRUE
            /\ pc' = "exit"
            /\ UNCHANGED clinical_df
    /\ UNCHANGED <<script, disk, survival_df, expression_df, master_sample_ids,
                   survival_df_clean, expression_df_clean, raw_expression_df,
                   sample_ids_to_keep, expression_subset_df, expression_long_df,
                   out, col, new_cols>>

\* lines 19-26, the second read_csv
LoadSurvival ==
    /\ script = "gene" /\ pc = "load_survival"
    /\ IF "survival" \in disk.present
       THEN /\ survival_df' = disk.survival
            /\ pc' = "load_expression"
            /\ UNCHANGED reported
       ELSE /\ reported' = TRUE
            /\ pc' = "exit"
            /\ UNCHANGED survival_df
    /\ UNCHANGED <<script, disk, clinical_df, expression_df, master_sample_ids,
                   survival_df_clean, expression_df_clean, raw_expression_df,
                   sample_ids_to_keep, expression_subset_df, expression_long_df,
                   out, col, new_cols>>

\* lines 19-26, the third read_csv
LoadExpression ==
    /\ script = "gene" /\ pc = "load_expression"
    /\ IF "expression" \in disk.present
       THEN /\ expression_df' = disk.expression
            /\ pc' = "clean"
            /\ UNCHANGED reported
       ELSE /\ reported' = TRUE
            /\ pc' = "exit"
            /\ UNCHANGED expression_df
    /\ UNCHANGED <<script, disk, clinical_df, survival_df, master_sample_ids,
                   survival_df_clean, expression_df_clean, raw_expression_df,
                   sample_ids_to_keep, expression_subset_df, expression_long_df,
                   out, col, new_cols>>

\* lines 28-36
CleanColumnNames ==
    /\ script = "gene" /\ pc = "clean"
    /\ clinical_df' = clean_col_names(clinical_df)
    /\ survival_df' = clean_col_names(survival_df)
    /\ expression_df' = clean_col_names(expression_df)
    /\ pc' = "filter"
    /\ UNCHANGED <<script, disk, master_sample_ids, survival_df_clean,
                   expression_df_clean, raw_expression_df, sample_ids_to_keep,
                   expression_subset_df, expression_long_df, out, reported,
                   col, new_cols>>

\* lines 38-47
ReferentialFilter ==
    /\ script = "gene" /\ pc = "filter"
    /\ master_sample_ids' = SampleIdSet(clinical_df)
    /\ survival_df_clean' = FilterBySampleId(survival_df, master_sample_ids')
    /\ expression_df_clean' = FilterBySampleId(expression_df, master_sample_ids')
    /\ pc' = "convert"
    /\ UNCHANGED <<script, disk, clinical_df, survival_df, expression_df,
                   raw_expression_df, sample_ids_to_keep, expression_subset_df,
                   expression_long_df, out, reported, col, new_cols>>

\* lines 49-66
ConvertTypes ==
    /\ script = "gene" /\ pc = "convert"
    /\ clinical_df' = CoerceColumns(clinical_df, ClinicalTargets(clinical_df))
    /\ survival_df_clean' =
           CoerceColumns(survival_df_clean, SurvivalTargets(survival_df_clean))
    /\ pc' = "melt"
    /\ UNCHANGED <<script, disk, survival_df, expression_df, master_sample_ids,
                   expression_df_clean, raw_expression_df, sample_ids_to_keep,
                   expression_subset_df, expression_long_df, out, reported,
                   col, new_cols>>

\* lines 68-80
Reshape ==
    /\ script = "gene" /\ pc = "melt"
    /\ expression_long_df' =
           CoerceColumns(Melt(expression_df_clean), {expression_value})
    /\ pc' = "export_clinical"
    /\ UNCHANGED <<script, disk, clinical_df, survival_df, expression_df,
                   master_sample_ids, survival_df_clean, expression_df_clean,
                   raw_expression_df, sample_ids_to_keep, expression_subset_df,
                   out, reported, col, new_cols>>

\* line 83
ExportClinical ==
    /\ script = "gene" /\ pc = "export_clinical"
    /\ out' = ToCsv(out, "cleaned_clinical_data", clinical_df)
    /\ pc' = "export_survival"
    /\ UNCHANGED <<script, disk, clinical_df, survival_df, expression_df,
                   master_sample_ids, survival_df_clean, expression_df_clean,
                   raw_expression_df, sample_ids_to_keep, expression_subset_df,
                   expression_long_df, reported, col, new_cols>>

\* the survival table written under the name of the clinical file
ExportSurvivalWrongFile ==
    /\ script = "gene" /\ pc = "export_survival"
    /\ out' = ToCsv(out, "cleaned_clinical_data", survival_df_clean)
    /\ pc' = "export_expression"
    /\ UNCHANGED <<script, disk, clinical_df, survival_df, expression_df,
                   master_sample_ids, survival_df_clean, expression_df_clean,
                   raw_expression_df, sample_ids_to_keep, expression_subset_df,
                   expression_long_df, reported, col, new_cols>>

\* line 84
ExportSurvival ==
    /\ script = "gene" /\ pc = "export_survival"
    /\ out' = ToCsv(out, "cleaned_survival_data", survival_df_clean)
    /\ pc' = "export_expression"
    /\ UNCHANGED <<script, disk, clinical_df, survival_df, expression_df,
                   master_sample_ids, survival_df_clean, expression_df_clean,
                   raw_expression_df, sample_ids_to_keep, expression_subset_df,
                   expression_long_df, reported, col, new_cols>>

\* lines 85-86
ExportExpression ==
    /\ script = "gene" /\ pc = "export_expression"
    /\ out' = ToCsv(out, "cleaned_expression_data", expression_long_df)
    /\ pc' = "done"
    /\ UNCHANGED <<script, disk, clinical_df, survival_df, expression_df,
                   master_sample_ids, survival_df_clean, expression_df_clean,
                   raw_expression_df, sample_ids_to_keep, expression_subset_df,
                   expression_long_df, reported, col, new_cols>>

-----------------------------------------------------------------------------
(* gene_chunk.py *)

\* lines 20-28
ChunkLoad ==
    /\ script = "gene_chunk" /\ pc = "chunk_load"
    /\ IF "expression" \in disk.present
       THEN /\ raw_expression_df' = disk.expression
            /\ pc' = "chunk_select"
            /\ UNCHANGED reported
       ELSE /\ reported' = TRUE
            /\ pc' = "exit"
            /\ UNCHANGED raw_expression_df
    /\ UNCHANGED <<script, disk, clinical_df, survival_df, expression_df,
                   master_sample_ids, survival_df_clean, expression_df_clean,
                   sample_ids_to_keep, expression_subset_df, expression_long_df,
                   out, col, new_cols>>

\* lines 30-32
SelectSampleIds ==
    /\ script = "gene_chunk" /\ pc = "chunk_select"
    /\ sample_ids_to_keep' = Head_n(Unique(SampleIdColumn(raw_expression_df)), KeepN)
    /\ pc' = "chunk_filter"
    /\ UNCHANGED <<script, disk, clinical_df, survival_df, expression_df,
                   master_sample_ids, survival_df_clean, expression_df_clean,
                   raw_expression_df, expression_subset_df, expression_long_df,
                   out, reported, col, new_cols>>

\* lines 34-39
FilterSubset ==
    /\ script = "gene_chunk" /\ pc = "chunk_filter"
    /\ expression_subset_df' =
           FilterBySampleId(raw_expression_df, Range(sample_ids_to_keep))
    /\ pc' = "chunk_clean"
    /\ UNCHANGED <<script, disk, clinical_df, survival_df, expression_df,
                   master_sample_ids, survival_df_clean, expression_df_clean,
                   raw_expression_df, sample_ids_to_keep, expression_long_df,
                   out, reported, col, new_cols>>

\* lines 41-42: clean_col_names renames the columns of the table it is given
\* and returns that same table
CleanSubset ==
    /\ script = "gene_chunk" /\ pc = "chunk_clean"
    /\ expression_subset_df' = clean_col_names_chunk(expression_subset_df)
    /\ expression_df_clean' = expression_subset_df'
    /\ pc' = "chunk_melt"
    /\ UNCHANGED <<script, disk, clinical_df, survival_df, expression_df,
                   master_sample_ids, survival_df_clean, raw_expression_df,
                   sample_ids_to_keep, expression_long_df, out, reported,
                   col, new_cols>>

\* lines 44-56
ChunkReshape ==
    /\ script = "gene_chunk" /\ pc = "chunk_melt"
    /\ expression_long_df' =
           CoerceColumns(Melt(expression_df_clean), {expression_value})
    /\ pc' = "chunk_export"
    /\ UNCHANGED <<script, disk, clinical_df, survival_df, expression_df,
                   master_sample_ids, survival_df_clean, expression_df_clean,
                   raw_expression_df, sample_ids_to_keep, expression_subset_df,
                   out, reported, col, new_cols>>

\* lines 58-61
ChunkExport ==
    /\ script = "gene_chunk" /\ pc = "chunk_export"
    /\ out' = ToCsv(out, "final_cleaned_expression_2", expression_long_df)
    /\ pc' = "done"
    /\ UNCHANGED <<script, disk, clinical_df, survival_df, expression_df,
                   master_sample_ids, survival_df_clean, expression_df_clean,
                   raw_expression_df, sample_ids_to_keep, expression_subset_df,
                   expression_long_df, reported, col, new_cols>>

Next ==
    \/ LoadClinical
    \/ LoadSurvival
    \/ LoadExpression
    \/ CleanColumnNames
    \/ ReferentialFilter
    \/ ConvertTypes
    \/ Reshape
    \/ ExportClinical
    \/ ExportSurvival
    \/ ExportExpression
    \/ ChunkLoad
    \/ SelectSampleIds
    \/ FilterSubset
    \/ CleanSubset
    \/ ChunkReshape
    \/ ChunkExport

Spec == Init /\ [][Next]_vars

-----------------------------------------------------------------------------
(* The normalizer on its own: clean_col_names applied to a one-column table, *)
(* and then to its own result                                              *)

Alphabet == {"a", "B", "1", "_", " "}

\* pd.read_csv gives every column a name of at least one character
Names == SeqsUpTo(Alphabet, MaxNameLen) \ { <<>> }

OneColumn(name) == [columns |-> <<name>>, rows |-> <<>>]

Normalize(name) ==
    IF script = "gene" THEN clean_col_names(OneColumn(name)).columns[1]
    ELSE clean_col_names_chunk(OneColumn(name)).columns[1]

InitNames ==
    /\ script \in {"gene", "gene_chunk"}
    /\ pc = "name"
    /\ disk = Dataset(NoTable, NoTable, NoTable, {})
    /\ Blank
    /\ col \in Names
    /\ new_cols = <<>>

CleanOnce ==
    /\ pc = "name"
    /\ new_cols' = <<Normalize(col)>>
    /\ pc' = "once"
    /\ UNCHANGED <<script, disk, clinical_df, survival_df, expression_df,
                   master_sample_ids, survival_df_clean, expression_df_clean,
                   raw_expression_df, sample_ids_to_keep, expression_subset_df,
                   expression_long_df, out, reported, col>>

CleanAgain ==
    /\ pc = "once"
    /\ new_cols' = Append(new_cols, Normalize(new_cols[1]))
    /\ pc' = "twice"
    /\ UNCHANGED <<script, disk, clinical_df, survival_df, expression_df,
                   master_sample_ids, survival_df_clean, expression_df_clean,
                   raw_expression_df, sample_ids_to_keep, expression_subset_df,
                   expression_long_df, out, reported, col>>

NextNames == CleanOnce \/ CleanAgain

SpecNames == InitNames /\ [][NextNames]_vars

-----------------------------------------------------------------------------
(* Vocabulary of the properties, stated on the input files and the outputs *)

AfterFilter ==
    {"convert", "melt", "export_clinical", "export_survival",
     "export_expression", "done"}

AfterReshape ==
    {"export_clinical", "export_survival", "export_expression", "done"}

\* the position of the column of a raw table whose name normalizes to
\* sample_id, and the values of that column
IdPosition(df) == CHOOSE j \in DOMAIN df.columns : CleanName(df.columns[j]) = sample_id
IdAt(df, r) == df.rows[r][IdPosition(df)]

\* the sample_id column of a table, as a sequence and as a set
IdSeq(df) ==
    LET j == IdPosition(df)
    IN  [r \in DOMAIN df.rows |-> df.rows[r][j]]

IdsOf(df) == Range(IdSeq(df))

\* the positions of the other columns
GenePositions(df) == DOMAIN df.columns \ {IdPosition(df)}

\* the rows of a raw table whose identifier is in ids
RetainedIndices(df, ids) ==
    LET s == IdSeq(df)
    IN  { r \in DOMAIN s : s[r] \in ids }

\* the elements of s at the indices in I, in the order of s
RECURSIVE Pick(_, _, _)
Pick(s, I, r) ==
    IF r > Len(s) THEN <<>>
    ELSE (IF r \in I THEN <<s[r]>> ELSE <<>>) \o Pick(s, I, r + 1)

\* the sample_id values of a long table
LongIds(long) == { long.rows[k][1] : k \in DOMAIN long.rows }

\* a token that spells a number
SpellsNumber(c) == c.t = "str" /\ (IsDigits(c.s) \/ c.s = <<"i","n","f">>)

-----------------------------------------------------------------------------
(* C1 *)

\* C1: once gene.py has filtered, every sample_id of the filtered survival
\* table, of the filtered expression table and of the long expression table
\* is a sample_id of the clinical table, in memory and in the files written.
C1_FilterSubset ==
    (script = "gene" /\ pc \in AfterFilter) =>
        /\ IdsOf(survival_df_clean) \subseteq IdsOf(clinical_df)
        /\ IdsOf(expression_df_clean) \subseteq IdsOf(clinical_df)
        /\ (pc \in AfterReshape =>
                LongIds(expression_long_df) \subseteq IdsOf(clinical_df))
        /\ (pc = "done" =>
                /\ IdsOf(out.cleaned_survival_data)
                       \subseteq IdsOf(out.cleaned_clinical_data)
                /\ LongIds(out.cleaned_expression_data)
                       \subseteq IdsOf(out.cleaned_clinical_data))

\* a run that ended, whose survival and expression files both held an
\* identifier foreign to the clinical file and both kept some rows
C1_Witness ==
    /\ script = "gene" /\ pc = "done"
    /\ ~(IdsOf(disk.survival) \subseteq IdsOf(disk.clinical))
    /\ ~(IdsOf(disk.expression) \subseteq IdsOf(disk.clinical))
    /\ out.cleaned_survival_data.rows # <<>>
    /\ out.cleaned_expression_data.rows # <<>>

-----------------------------------------------------------------------------
(* C2 *)

\* the rows the filter of the running script retains, counted on the input
\* file: gene.py keeps the identifiers of the clinical file, gene_chunk.py
\* the first KeepN distinct identifiers of the expression file
FirstDistinct(df) ==
    LET s == IdSeq(df)
    IN  { s[r] : r \in { p \in DOMAIN s :
                            /\ \A q \in 1..(p - 1) : s[q] # s[p]
                            /\ Cardinality({ s[q] : q \in 1..p }) <= KeepN } }

RetainedCount ==
    IF script = "gene"
    THEN Cardinality(RetainedIndices(disk.expression, IdsOf(disk.clinical)))
    ELSE Cardinality(RetainedIndices(disk.expression, FirstDistinct(disk.expression)))

\* C2: the long table has (rows retained) * (columns other than sample_id)
\* rows, in gene.py and in gene_chunk.py.
C2_ReshapeCardinality ==
    (pc \in AfterReshape \cup {"chunk_export"}
        \/ (script = "gene_chunk" /\ pc = "done")) =>
        Len(expression_long_df.rows)
            = RetainedCount * Cardinality(GenePositions(disk.expression))

\* a long table of two retained rows and two gene columns, one cell missing
C2_Witness ==
    /\ pc = "done"
    /\ RetainedCount = 2
    /\ Cardinality(GenePositions(disk.expression)) = 2
    /\ \E r \in DOMAIN disk.expression.rows, j \in GenePositions(disk.expression) :
          disk.expression.rows[r][j] = NaN
    /\ Len(expression_long_df.rows) = 4

-----------------------------------------------------------------------------
(* C3 *)

\* the cells of the retained rows of the wide expression file of gene.py, and
\* the long row each stands for
RetainedCells ==
    { <<r, j>> : r \in RetainedIndices(disk.expression, IdsOf(disk.clinical)),
                 j \in GenePositions(disk.expression) }

LongRowOf(c) ==
    <<IdAt(disk.expression, c[1]),
      Str(CleanName(disk.expression.columns[c[2]])),
      ToNumeric(disk.expression.rows[c[1]][c[2]])>>

\* every cell stands in the long table as often as it occurs: none is left
\* out, none is written twice, and no other row is written
EveryCellOnce ==
    \A t \in Range(expression_long_df.rows) \cup { LongRowOf(c) : c \in RetainedCells } :
        Cardinality({ k \in DOMAIN expression_long_df.rows : expression_long_df.rows[k] = t })
            = Cardinality({ c \in RetainedCells : LongRowOf(c) = t })

\* no two rows of the long table carry the same (sample_id, gene_symbol)
PairsDistinct ==
    \A k1, k2 \in DOMAIN expression_long_df.rows :
        (expression_long_df.rows[k1][1] = expression_long_df.rows[k2][1]
         /\ expression_long_df.rows[k1][2] = expression_long_df.rows[k2][2]) => k1 = k2

\* the retained rows carry distinct identifiers and the gene columns carry
\* distinct normalized names
KeysDistinct ==
    /\ \A r1, r2 \in RetainedIndices(disk.expression, IdsOf(disk.clinical)) :
          IdAt(disk.expression, r1) = IdAt(disk.expression, r2) => r1 = r2
    /\ \A j1, j2 \in GenePositions(disk.expression) :
          CleanName(disk.expression.columns[j1]) = CleanName(disk.expression.columns[j2])
              => j1 = j2

\* C3 as stated: in the long table of gene.py every retained cell is
\* enumerated once and no two rows share a (sample_id, gene_symbol) pair.
C3_OnePerPair ==
    (script = "gene" /\ pc \in AfterReshape) => (EveryCellOnce /\ PairsDistinct)

\* C3 as amended: every retained cell is enumerated exactly once, and the
\* (sample_id, gene_symbol) pairs are distinct whenever the retained rows
\* carry distinct identifiers and the gene columns distinct normalized names.
C3_OnePerCell ==
    (script = "gene" /\ pc \in AfterReshape) =>
        (EveryCellOnce /\ (KeysDistinct => PairsDistinct))

\* a long table of several rows over distinct keys, and one in which a
\* sample_id occurs in two retained rows
C3_Witness ==
    /\ script = "gene" /\ pc = "done"
    /\ Len(expression_long_df.rows) >= 4
    /\ KeysDistinct
    /\ Cardinality(GenePositions(disk.expression)) = 2

-----------------------------------------------------------------------------
(* C4, C5: the normalizer *)

\* the shape the names should have: not empty, over [a-z0-9_], no
\* underscore first or last, no two underscores in a row
WellFormed(n) ==
    /\ Len(n) > 0
    /\ \A i \in DOMAIN n : n[i] \in Range(LowerLetters) \cup DigitSet \cup {"_"}
    /\ n[1] # "_"
    /\ n[Len(n)] # "_"
    /\ \A i \in 1..(Len(n) - 1) : ~(n[i] = "_" /\ n[i + 1] = "_")

\* C4: the name clean_col_names produces is well formed, in gene.py and in
\* gene_chunk.py.
C4_WellFormedNames ==
    (pc \in {"once", "twice"}) => WellFormed(new_cols[1])

\* C5: clean_col_names applied to its own result gives that result again,
\* in gene.py and in gene_chunk.py.
C5_Idempotent ==
    (pc = "twice") => new_cols[2] = new_cols[1]

-----------------------------------------------------------------------------
(* C6 *)

IsNumberOrMissing(c) == c.t \in {"num", "inf", "nan"}
IsFiniteOrMissing(c) == c.t \in {"num", "nan"}

\* the rows of a raw input table that the filter of gene.py retains
RetainedRows(df) == Pick(df.rows, RetainedIndices(df, IdsOf(disk.clinical)), 1)

\* the cells of the coerced columns, each with the cell of the input it
\* comes from
CoercedCells ==
    { <<clinical_df.rows[r][j], disk.clinical.rows[r][j]>> :
        r \in DOMAIN clinical_df.rows,
        j \in { i \in DOMAIN clinical_df.columns :
                  clinical_df.columns[i] \in Range(numeric_clinical_cols) } }
    \cup
    { <<survival_df_clean.rows[r][j], RetainedRows(disk.survival)[r][j]>> :
        r \in DOMAIN survival_df_clean.rows,
        j \in GenePositions(disk.survival) }
    \cup
    { <<expression_long_df.rows[LongR][3],
        RetainedRows(disk.expression)[((LongR - 1) % Len(expression_df_clean.rows)) + 1]
            [Pick([i \in DOMAIN disk.expression.columns |-> i],
                  GenePositions(disk.expression), 1)
                [((LongR - 1) \div Len(expression_df_clean.rows)) + 1]]>> :
        LongR \in DOMAIN expression_long_df.rows }

\* C6 as stated: every coerced value is a finite number or the missing
\* marker, and a token that spells no number becomes the missing marker.
C6_FiniteOrMissing ==
    (script = "gene" /\ pc \in AfterReshape) =>
        \A c \in CoercedCells :
            /\ IsFiniteOrMissing(c[1])
            /\ (c[2].t = "str" /\ ~SpellsNumber(c[2])) => c[1] = NaN

\* C6 as amended: every coerced value is a number (an infinity when the
\* token spells one) or the missing marker, never a string; a token that
\* spells no number becomes the missing marker, not zero.
C6_NumberOrMissing ==
    (script = "gene" /\ pc \in AfterReshape) =>
        \A c \in CoercedCells :
            /\ IsNumberOrMissing(c[1])
            /\ (c[2].t = "str" /\ ~SpellsNumber(c[2])) => c[1] = NaN

\* a run in which "not reported" stood in a designated clinical column, in a
\* survival column and in a gene column of retained rows
C6_Witness ==
    /\ script = "gene" /\ pc = "done"
    /\ LET nr == Str(<<"n","o","t"," ","r","e","p","o","r","t","e","d">>)
       IN  /\ \E r \in DOMAIN disk.clinical.rows, j \in DOMAIN disk.clinical.columns :
                /\ CleanName(disk.clinical.columns[j]) = death_days_to
                /\ disk.clinical.rows[r][j] = nr
                /\ out.cleaned_clinical_data.rows[r][j] = NaN
           /\ \E r \in DOMAIN RetainedRows(disk.survival), j \in GenePositions(disk.survival) :
                RetainedRows(disk.survival)[r][j] = nr
           /\ \E r \in DOMAIN RetainedRows(disk.expression), j \in GenePositions(disk.expression) :
                RetainedRows(disk.expression)[r][j] = nr

-----------------------------------------------------------------------------
(* C7 *)

OutputNames ==
    {"cleaned_clinical_data", "cleaned_survival_data", "cleaned_expression_data"}

Loading == {"load_clinical", "load_survival", "load_expression"}

-----------------------------------------------------------------------------
(* C8 *)

\* C8: gene_chunk.py keeps exactly the rows whose sample_id is among the
\* first KeepN distinct ones of the file (all rows when the file holds no
\* more than KeepN distinct identifiers), in their order, and the long table
\* holds at most KeepN identifiers, all among those.
C8_FirstSix ==
    (script = "gene_chunk" /\ pc \in {"chunk_clean", "chunk_melt", "chunk_export", "done"}) =>
        LET first == FirstDistinct(disk.expression)
        IN  /\ expression_subset_df.rows =
                   Pick(disk.expression.rows, RetainedIndices(disk.expression, first), 1)
            /\ (Cardinality(IdsOf(disk.expression)) <= KeepN =>
                    expression_subset_df.rows = disk.expression.rows)
            /\ (pc \in {"chunk_export", "done"} =>
                    /\ LongIds(expression_long_df) \subseteq first
                    /\ Cardinality(LongIds(expression_long_df)) <= KeepN
                    /\ (GenePositions(disk.expression) # {} =>
                            LongIds(expression_long_df) = first))
            /\ (pc = "done" => out.final_cleaned_expression_2 = expression_long_df)

\* a file of more than KeepN distinct identifiers, one of them repeated
\* among the first rows: KeepN identifiers are written
C8_Witness ==
    /\ script = "gene_chunk" /\ pc = "done"
    /\ Cardinality(IdsOf(disk.expression)) > KeepN
    /\ Cardinality(LongIds(out.final_cleaned_expression_2)) = KeepN
    /\ Len(expression_subset_df.rows) < Len(disk.expression.rows)

-----------------------------------------------------------------------------
(* C9 *)

Designated(df, j) == CleanName(df.columns[j]) \in Range(numeric_clinical_cols)

\* C9: the clinical table written has the rows and the columns of the
\* clinical file, in their order; a cell outside the designated numeric
\* columns is unchanged; in a designated column a numeric cell is unchanged
\* and a token that spells no number becomes the missing marker.
C9_ClinicalShape ==
    (script = "gene") =>
        /\ (pc \in {"load_survival", "load_expression", "clean", "filter", "convert"} =>
                clinical_df.rows = disk.clinical.rows)
        /\ (pc \in AfterReshape =>
                Len(clinical_df.columns) = Len(disk.clinical.columns))
        /\ (pc = "done" =>
                LET o == out.cleaned_clinical_data
                    i == disk.clinical
                IN  /\ Len(o.rows) = Len(i.rows)
                    /\ o.columns = [j \in DOMAIN i.columns |-> CleanName(i.columns[j])]
                    /\ \A r \in DOMAIN i.rows :
                          /\ Len(o.rows[r]) = Len(i.rows[r])
                          /\ \A j \in DOMAIN i.columns :
                                IF Designated(i, j)
                                THEN /\ IsNumberOrMissing(o.rows[r][j])
                                     /\ (i.rows[r][j].t # "str" =>
                                            o.rows[r][j] = i.rows[r][j])
                                     /\ (i.rows[r][j].t = "str" /\ ~SpellsNumber(i.rows[r][j]) =>
                                            o.rows[r][j] = NaN)
                                ELSE o.rows[r][j] = i.rows[r][j])

\* "not reported" stood in death_days_to and in a column that is not
\* designated: the first became the missing marker, the second was kept
C9_Witness ==
    /\ script = "gene" /\ pc = "done"
    /\ LET nr == Str(<<"n","o","t"," ","r","e","p","o","r","t","e","d">>)
           o == out.cleaned_clinical_data
           i == disk.clinical
       IN  /\ \E r \in DOMAIN i.rows, j \in DOMAIN i.columns :
                /\ CleanName(i.columns[j]) = death_days_to
                /\ i.rows[r][j] = nr
                /\ o.rows[r][j] = NaN
           /\ \E r \in DOMAIN i.rows, j \in DOMAIN i.columns :
                /\ ~Designated(i, j)
                /\ i.rows[r][j] = nr
                /\ o.rows[r][j] = nr

-----------------------------------------------------------------------------
(* C10 *)

\* C10: the filter of gene.py keeps a survival (an expression) row if and
\* only if its sample_id is one of the clinical table, in the order of the
\* input, and changes neither the clinical table nor the unfiltered tables;
\* with clinical S1, S2, S3 and survival S1, S2, S4 it keeps the rows of S1
\* and S2.
C10_FilterExact ==
    (script = "gene" /\ pc \in AfterFilter) =>
        /\ master_sample_ids = IdsOf(disk.clinical)
        /\ (pc = "convert" =>
                /\ survival_df_clean.rows = RetainedRows(disk.survival)
                /\ clinical_df.rows = disk.clinical.rows)
        /\ IdSeq(survival_df_clean) = IdSeq([disk.survival EXCEPT !.rows = RetainedRows(disk.survival)])
        /\ expression_df_clean.rows = RetainedRows(disk.expression)
        /\ survival_df.rows = disk.survival.rows
        /\ expression_df.rows = disk.expression.rows
        /\ ((IdsOf(disk.clinical) = {Sid(1), Sid(2), Sid(3)}
             /\ IdSeq(disk.survival) = <<Sid(1), Sid(2), Sid(4)>>) =>
                IdSeq(survival_df_clean) = <<Sid(1), Sid(2)>>)

\* the run of the example
C10_Witness ==
    /\ script = "gene" /\ pc = "convert"
    /\ IdsOf(disk.clinical) = {Sid(1), Sid(2), Sid(3)}
    /\ IdSeq(disk.survival) = <<Sid(1), Sid(2), Sid(4)>>
    /\ Len(survival_df_clean.rows) = 2
    /\ Len(expression_df_clean.rows) < Len(expression_df.rows)

=============================================================================
